---- MODULE Spec2Model ----
(***************************************************************************)
(* A model of app.py: the Streamlit sentiment-analysis page.               *)
(*                                                                         *)
(* Python strings are sequences of one-character strings, so that the      *)
(* regex replace, lower(), split() and join() of predict_sentiment are     *)
(* computed character by character.  One run of main() (one Streamlit      *)
(* rerun with one widget state) is one action.                             *)
(***************************************************************************)
EXTENDS Integers, Sequences, FiniteSets, TLC

VARIABLES
    nltk_corpus,      \* what stopwords.words('english') returns in this process
    disk,             \* the unpickled content of model.pkl / vectorizer.pkl
    stopwords_cache,  \* st.cache_resource entry of load_stopwords
    model_cache,      \* st.cache_resource entry of load_model_and_vectorizer
    scraper_cache,    \* st.cache_resource entry of initialize_scraper
    disk_reads,       \* how many times the body of load_model_and_vectorizer ran
    run,              \* the widget state of the last run of main()
    used,             \* the (stop_words, model, vectorizer) main() worked with in the last run
    out,              \* the elements the last run emitted through st.*, in order
    escaped,          \* the exception that escaped main() in the last run, or NoException
    calls,            \* the predict_sentiment calls of the last run, in order
    scraper_calls,    \* the username arguments of scraper.get_tweets in the last run
    divisions,        \* the divisors of the percentage divisions executed in the last run
    locals,           \* the batch locals of the last run (texts, sentiments, counts)
    probe,            \* one earlier predict_sentiment call, remembered for comparison
    fn,               \* the arguments of a function applied on its own
    ret               \* the result of the function applied on its own

vars == << nltk_corpus, disk, stopwords_cache, model_cache, scraper_cache, disk_reads,
           run, used, out, escaped, calls, scraper_calls, divisions, locals, probe,
           fn, ret >>

mainVars == << nltk_corpus, disk, stopwords_cache, model_cache, scraper_cache, disk_reads,
               run, used, out, escaped, calls, scraper_calls, divisions, locals, probe >>

(***************************************************************************)
(* Bounds                                                                  *)
(***************************************************************************)
MaxLen == 3        \* longest input string of the normaliser applied on its own
MaxBatch == 2      \* longest fetched batch

(***************************************************************************)
(* Characters and strings                                                  *)
(***************************************************************************)
UpperLetters == << "A", "B", "C", "D", "E", "F", "G", "H", "I", "J", "K", "L", "M",
                   "N", "O", "P", "Q", "R", "S", "T", "U", "V", "W", "X", "Y", "Z" >>

LowerLetters == << "a", "b", "c", "d", "e", "f", "g", "h", "i", "j", "k", "l", "m",
                   "n", "o", "p", "q", "r", "s", "t", "u", "v", "w", "x", "y", "z" >>

Range(f) == { f[i] : i \in DOMAIN f }

\* the character class [a-zA-Z]
AsciiUpper == Range(UpperLetters)

AsciiLetters == AsciiUpper \cup Range(LowerLetters)

\* what str.split() with no argument splits on
Whitespace == { " ", "\t", "\n" }

\* str.lower() on one character (the accented capital stands for the non-ASCII letters)
LowerChar(c) ==
    IF c \in AsciiUpper
    THEN LowerLetters[CHOOSE i \in DOMAIN UpperLetters : UpperLetters[i] = c]
    ELSE IF c = "É" THEN "é" ELSE c

\* re.sub('[^a-zA-Z]', ' ', text)
ReSubNonLetters(text) ==
    [ i \in 1..Len(text) |-> IF text[i] \in AsciiLetters THEN text[i] ELSE " " ]

\* text.lower()
Lower(text) == [ i \in 1..Len(text) |-> LowerChar(text[i]) ]

Min(S) == CHOOSE x \in S : \A y \in S : x <= y

\* the words that start at `starts` and end at `ends`, in order
RECURSIVE Words(_, _, _)
Words(text, starts, ends) ==
    IF starts = { } THEN << >>
    ELSE LET s == Min(starts)
             e == Min(ends)
         IN  << SubSeq(text, s, e) >> \o Words(text, starts \ { s }, ends \ { e })

\* text.split(): the maximal runs of non-whitespace characters, in order
Split(text) ==
    LET n == Len(text)
        inWord == [ i \in 1..n |-> text[i] \notin Whitespace ]
        starts == { i \in 1..n : inWord[i] /\ (i = 1 \/ ~inWord[i - 1]) }
        ends == { i \in 1..n : inWord[i] /\ (i = n \/ ~inWord[i + 1]) }
    IN  Words(text, starts, ends)

\* [word for word in text if word not in stop_words]
RECURSIVE FilterStopWords(_, _)
FilterStopWords(words, stop_words) ==
    IF words = << >> THEN << >>
    ELSE IF Head(words) \in stop_words
         THEN FilterStopWords(Tail(words), stop_words)
         ELSE << Head(words) >> \o FilterStopWords(Tail(words), stop_words)

\* ' '.join(text)
RECURSIVE Join(_)
Join(words) ==
    IF words = << >> THEN << >>
    ELSE IF Len(words) = 1 THEN Head(words)
         ELSE Head(words) \o << " " >> \o Join(Tail(words))

\* normalize with the lower() of line 28 left out
normalize_no_lower(text, stop_words) ==
    Join(FilterStopWords(Split(ReSubNonLetters(text)), stop_words))

\* lines 27-31 of predict_sentiment: the normalised text
normalize(text, stop_words) ==
    Join(FilterStopWords(Split(Lower(ReSubNonLetters(text))), stop_words))

(***************************************************************************)
(* The pickled artifacts.  They are opaque objects to app.py; here a       *)
(* vectorizer is a vocabulary with a set of tokens its analyser fails on,  *)
(* and a model is a linear decision function over the vocabulary counts.   *)
(***************************************************************************)
NoException == "NoException"

W_love == << "l", "o", "v", "e" >>
W_worst == << "w", "o", "r", "s", "t" >>
W_great == << "g", "r", "e", "a", "t" >>
W_this == << "t", "h", "i", "s" >>
W_is == << "i", "s" >>
W_i == << "i" >>
W_a == << "a" >>

RECURSIVE CountOf(_, _)
CountOf(word, words) ==
    IF words = << >> THEN 0
    ELSE (IF Head(words) = word THEN 1 ELSE 0) + CountOf(word, Tail(words))

\* vectorizer.transform(batch): one row of vocabulary counts per document
TransformWords(vectorizer, words) ==
    IF \E d \in DOMAIN words : \E w \in Range(words[d]) : w \in vectorizer.raises_on
    THEN [ raised |-> "ValueError", rows |-> << >> ]
    ELSE [ raised |-> NoException,
           rows |-> [ d \in DOMAIN words |->
                        [ k \in DOMAIN vectorizer.vocabulary |->
                            CountOf(vectorizer.vocabulary[k], words[d]) ] ] ]

Transform(vectorizer, batch) ==
    TransformWords(vectorizer, [ d \in DOMAIN batch |-> Split(batch[d]) ])

RECURSIVE Dot(_, _)
Dot(coef, row) ==
    IF coef = << >> THEN 0
    ELSE Head(coef) * Head(row) + Dot(Tail(coef), Tail(row))

\* model.predict(rows): one class index in {0, 1} per row
Predict(model, rows) ==
    [ d \in DOMAIN rows |-> IF Dot(model.coef, rows[d]) + model.intercept > 0 THEN 1 ELSE 0 ]

Vocabulary == << W_love, W_great, W_worst >>

\* what model.pkl and vectorizer.pkl can hold
ArtifactChoices ==
    { [ model |-> [ coef |-> << 1, 1, -1 >>, intercept |-> 0 ],
        vectorizer |-> [ vocabulary |-> Vocabulary, raises_on |-> { } ] ],
      [ model |-> [ coef |-> << 2, 1, -1 >>, intercept |-> 1 ],
        vectorizer |-> [ vocabulary |-> Vocabulary, raises_on |-> { W_worst } ] ] }

\* what stopwords.words('english') can return: lowercase words
StopwordChoices == { { W_this, W_is, W_i, W_a }, { } }

(***************************************************************************)
(* predict_sentiment                                                       *)
(***************************************************************************)
\* LabelOf with the two labels exchanged
LabelOfSwapped(sentiment) ==
    IF Len(sentiment) # 1
    THEN [ raised |-> "ValueError", value |-> "" ]
    ELSE [ raised |-> NoException,
           value |-> IF sentiment[1] = 0 THEN "Positive" ELSE "Negative" ]

\* line 37: "Negative" if sentiment == 0 else "Positive"; the truth value of a
\* comparison of an array that has not exactly one element is an error
LabelOf(sentiment) ==
    IF Len(sentiment) # 1
    THEN [ raised |-> "ValueError", value |-> "" ]
    ELSE [ raised |-> NoException,
           value |-> IF sentiment[1] = 0 THEN "Negative" ELSE "Positive" ]

\* lines 36-37: model.predict on the transformed batch, then the label
Classified(text, batch, sentiment, label) ==
    [ text |-> text, batch |-> batch, sentiment |-> sentiment,
      raised |-> label.raised, value |-> label.value ]

PredictRows(text, batch, model, X) ==
    IF X.raised # NoException
    THEN [ text |-> text, batch |-> batch, sentiment |-> << >>,
           raised |-> X.raised, value |-> "" ]
    ELSE Classified(text, batch, Predict(model, X.rows), LabelOf(Predict(model, X.rows)))

\* lines 32-33: the normalised text, wrapped as a one-element batch, is transformed
PredictBatch(text, batch, model, vectorizer) ==
    PredictRows(text, batch, model, Transform(vectorizer, batch))

\* lines 25-37.  The result records what was handed to the vectorizer and what the
\* classifier returned, next to the value returned (or the exception raised).
predict_sentiment(text, model, vectorizer, stop_words) ==
    PredictBatch(text, << normalize(text, stop_words) >>, model, vectorizer)

\* predict_sentiment filtering the caller's list in place: the stopwords met in the
\* text are removed from stop_words itself
predict_sentiment_effect_removes(text, model, vectorizer, stop_words) ==
    [ model |-> model, vectorizer |-> vectorizer,
      stop_words |-> stop_words \ Range(Split(Lower(ReSubNonLetters(text)))) ]

\* lines 25-37 assign only to the locals text and sentiment: the objects the three
\* parameters refer to are the same after the call
predict_sentiment_effect(text, model, vectorizer, stop_words) ==
    [ model |-> model, vectorizer |-> vectorizer, stop_words |-> stop_words ]

(***************************************************************************)
(* The cached loaders (st.cache_resource): the body runs on the first      *)
(* call of the process, every later call returns the cached object.        *)
(***************************************************************************)
EmptyCache == [ filled |-> FALSE ]

\* lines 10-13
load_stopwords(cache, corpus) ==
    IF cache.filled
    THEN [ ret |-> cache.value, cache |-> cache ]
    ELSE [ ret |-> corpus, cache |-> [ filled |-> TRUE, value |-> corpus ] ]

\* load_model_and_vectorizer without the st.cache_resource decorator
load_model_and_vectorizer_uncached(cache, on_disk, reads) ==
    [ ret |-> on_disk, cache |-> [ filled |-> TRUE, value |-> on_disk ], reads |-> reads + 1 ]

\* lines 16-22
load_model_and_vectorizer(cache, on_disk, reads) ==
    IF cache.filled
    THEN [ ret |-> cache.value, cache |-> cache, reads |-> reads ]
    ELSE [ ret |-> on_disk, cache |-> [ filled |-> TRUE, value |-> on_disk ],
           reads |-> reads + 1 ]

\* lines 40-42
initialize_scraper(cache) ==
    IF cache.filled
    THEN [ ret |-> cache.value, cache |-> cache ]
    ELSE [ ret |-> "Nitter", cache |-> [ filled |-> TRUE, value |-> "Nitter" ] ]

(***************************************************************************)
(* The batch: classification loop, statistics, report                      *)
(***************************************************************************)
\* lines 87-108: the sample tweets
demo_tweets == <<
    \* "I absolutely love this product! Best purchase I've made this year. Highly recommend it to everyone!"
    <<
        "I", " ", "a", "b", "s", "o", "l", "u", "t", "e", "l", "y", " ", "l", "o", "v", "e",
        " ", "t", "h", "i", "s", " ", "p", "r", "o", "d", "u", "c", "t", "!", " ", "B", "e",
        "s", "t", " ", "p", "u", "r", "c", "h", "a", "s", "e", " ", "I", "'", "v", "e", " ",
        "m", "a", "d", "e", " ", "t", "h", "i", "s", " ", "y", "e", "a", "r", ".", " ", "H",
        "i", "g", "h", "l", "y", " ", "r", "e", "c", "o", "m", "m", "e", "n", "d", " ", "i",
        "t", " ", "t", "o", " ", "e", "v", "e", "r", "y", "o", "n", "e", "!" >>,
    \* "This is terrible. Worst experience ever. I want my money back immediately."
    <<
        "T", "h", "i", "s", " ", "i", "s", " ", "t", "e", "r", "r", "i", "b", "l", "e", ".",
        " ", "W", "o", "r", "s", "t", " ", "e", "x", "p", "e", "r", "i", "e", "n", "c", "e",
        " ", "e", "v", "e", "r", ".", " ", "I", " ", "w", "a", "n", "t", " ", "m", "y", " ",
        "m", "o", "n", "e", "y", " ", "b", "a", "c", "k", " ", "i", "m", "m", "e", "d", "i",
        "a", "t", "e", "l", "y", "." >>,
    \* "Just had an amazing day at the beach with friends. Life is beautiful!"
    <<
        "J", "u", "s", "t", " ", "h", "a", "d", " ", "a", "n", " ", "a", "m", "a", "z", "i",
        "n", "g", " ", "d", "a", "y", " ", "a", "t", " ", "t", "h", "e", " ", "b", "e", "a",
        "c", "h", " ", "w", "i", "t", "h", " ", "f", "r", "i", "e", "n", "d", "s", ".", " ",
        "L", "i", "f", "e", " ", "i", "s", " ", "b", "e", "a", "u", "t", "i", "f", "u", "l",
        "!" >>,
    \* "Feeling so frustrated and disappointed with the customer service. Never shopping here again."
    <<
        "F", "e", "e", "l", "i", "n", "g", " ", "s", "o", " ", "f", "r", "u", "s", "t", "r",
        "a", "t", "e", "d", " ", "a", "n", "d", " ", "d", "i", "s", "a", "p", "p", "o", "i",
        "n", "t", "e", "d", " ", "w", "i", "t", "h", " ", "t", "h", "e", " ", "c", "u", "s",
        "t", "o", "m", "e", "r", " ", "s", "e", "r", "v", "i", "c", "e", ".", " ", "N", "e",
        "v", "e", "r", " ", "s", "h", "o", "p", "p", "i", "n", "g", " ", "h", "e", "r", "e",
        " ", "a", "g", "a", "i", "n", "." >>,
    \* "The new update is fantastic! Everything works so smoothly now. Great job developers!"
    <<
        "T", "h", "e", " ", "n", "e", "w", " ", "u", "p", "d", "a", "t", "e", " ", "i", "s",
        " ", "f", "a", "n", "t", "a", "s", "t", "i", "c", "!", " ", "E", "v", "e", "r", "y",
        "t", "h", "i", "n", "g", " ", "w", "o", "r", "k", "s", " ", "s", "o", " ", "s", "m",
        "o", "o", "t", "h", "l", "y", " ", "n", "o", "w", ".", " ", "G", "r", "e", "a", "t",
        " ", "j", "o", "b", " ", "d", "e", "v", "e", "l", "o", "p", "e", "r", "s", "!" >>,
    \* "This app keeps crashing. So annoying and unreliable. Waste of time."
    <<
        "T", "h", "i", "s", " ", "a", "p", "p", " ", "k", "e", "e", "p", "s", " ", "c", "r",
        "a", "s", "h", "i", "n", "g", ".", " ", "S", "o", " ", "a", "n", "n", "o", "y", "i",
        "n", "g", " ", "a", "n", "d", " ", "u", "n", "r", "e", "l", "i", "a", "b", "l", "e",
        ".", " ", "W", "a", "s", "t", "e", " ", "o", "f", " ", "t", "i", "m", "e", "." >>,
    \* "What a wonderful surprise! Exceeded all my expectations. Five stars!"
    <<
        "W", "h", "a", "t", " ", "a", " ", "w", "o", "n", "d", "e", "r", "f", "u", "l", " ",
        "s", "u", "r", "p", "r", "i", "s", "e", "!", " ", "E", "x", "c", "e", "e", "d", "e",
        "d", " ", "a", "l", "l", " ", "m", "y", " ", "e", "x", "p", "e", "c", "t", "a", "t",
        "i", "o", "n", "s", ".", " ", "F", "i", "v", "e", " ", "s", "t", "a", "r", "s", "!" >>,
    \* "Completely useless and overpriced. Don't waste your money on this garbage."
    <<
        "C", "o", "m", "p", "l", "e", "t", "e", "l", "y", " ", "u", "s", "e", "l", "e", "s",
        "s", " ", "a", "n", "d", " ", "o", "v", "e", "r", "p", "r", "i", "c", "e", "d", ".",
        " ", "D", "o", "n", "'", "t", " ", "w", "a", "s", "t", "e", " ", "y", "o", "u", "r",
        " ", "m", "o", "n", "e", "y", " ", "o", "n", " ", "t", "h", "i", "s", " ", "g", "a",
        "r", "b", "a", "g", "e", "." >>,
    \* "Having such a great time at the concert! The energy is incredible!"
    <<
        "H", "a", "v", "i", "n", "g", " ", "s", "u", "c", "h", " ", "a", " ", "g", "r", "e",
        "a", "t", " ", "t", "i", "m", "e", " ", "a", "t", " ", "t", "h", "e", " ", "c", "o",
        "n", "c", "e", "r", "t", "!", " ", "T", "h", "e", " ", "e", "n", "e", "r", "g", "y",
        " ", "i", "s", " ", "i", "n", "c", "r", "e", "d", "i", "b", "l", "e", "!" >>,
    \* "Stuck in traffic for hours. This is the worst commute of my life."
    <<
        "S", "t", "u", "c", "k", " ", "i", "n", " ", "t", "r", "a", "f", "f", "i", "c", " ",
        "f", "o", "r", " ", "h", "o", "u", "r", "s", ".", " ", "T", "h", "i", "s", " ", "i",
        "s", " ", "t", "h", "e", " ", "w", "o", "r", "s", "t", " ", "c", "o", "m", "m", "u",
        "t", "e", " ", "o", "f", " ", "m", "y", " ", "l", "i", "f", "e", "." >>,
    \* "Just finished reading an inspiring book. Feeling motivated and energized!"
    <<
        "J", "u", "s", "t", " ", "f", "i", "n", "i", "s", "h", "e", "d", " ", "r", "e", "a",
        "d", "i", "n", "g", " ", "a", "n", " ", "i", "n", "s", "p", "i", "r", "i", "n", "g",
        " ", "b", "o", "o", "k", ".", " ", "F", "e", "e", "l", "i", "n", "g", " ", "m", "o",
        "t", "i", "v", "a", "t", "e", "d", " ", "a", "n", "d", " ", "e", "n", "e", "r", "g",
        "i", "z", "e", "d", "!" >>,
    \* "The food was cold and tasteless. Very disappointing dining experience."
    <<
        "T", "h", "e", " ", "f", "o", "o", "d", " ", "w", "a", "s", " ", "c", "o", "l", "d",
        " ", "a", "n", "d", " ", "t", "a", "s", "t", "e", "l", "e", "s", "s", ".", " ", "V",
        "e", "r", "y", " ", "d", "i", "s", "a", "p", "p", "o", "i", "n", "t", "i", "n", "g",
        " ", "d", "i", "n", "i", "n", "g", " ", "e", "x", "p", "e", "r", "i", "e", "n", "c",
        "e", "." >>,
    \* "Congratulations to the team! Outstanding performance and well-deserved victory!"
    <<
        "C", "o", "n", "g", "r", "a", "t", "u", "l", "a", "t", "i", "o", "n", "s", " ", "t",
        "o", " ", "t", "h", "e", " ", "t", "e", "a", "m", "!", " ", "O", "u", "t", "s", "t",
        "a", "n", "d", "i", "n", "g", " ", "p", "e", "r", "f", "o", "r", "m", "a", "n", "c",
        "e", " ", "a", "n", "d", " ", "w", "e", "l", "l", "-", "d", "e", "s", "e", "r", "v",
        "e", "d", " ", "v", "i", "c", "t", "o", "r", "y", "!" >>,
    \* "Another delay and no explanation. This airline is a complete disaster."
    <<
        "A", "n", "o", "t", "h", "e", "r", " ", "d", "e", "l", "a", "y", " ", "a", "n", "d",
        " ", "n", "o", " ", "e", "x", "p", "l", "a", "n", "a", "t", "i", "o", "n", ".", " ",
        "T", "h", "i", "s", " ", "a", "i", "r", "l", "i", "n", "e", " ", "i", "s", " ", "a",
        " ", "c", "o", "m", "p", "l", "e", "t", "e", " ", "d", "i", "s", "a", "s", "t", "e",
        "r", "." >>,
    \* "Beautiful sunset today. Nature never fails to amaze me."
    <<
        "B", "e", "a", "u", "t", "i", "f", "u", "l", " ", "s", "u", "n", "s", "e", "t", " ",
        "t", "o", "d", "a", "y", ".", " ", "N", "a", "t", "u", "r", "e", " ", "n", "e", "v",
        "e", "r", " ", "f", "a", "i", "l", "s", " ", "t", "o", " ", "a", "m", "a", "z", "e",
        " ", "m", "e", "." >>,
    \* "Broken promises and poor quality. I expected so much better than this."
    <<
        "B", "r", "o", "k", "e", "n", " ", "p", "r", "o", "m", "i", "s", "e", "s", " ", "a",
        "n", "d", " ", "p", "o", "o", "r", " ", "q", "u", "a", "l", "i", "t", "y", ".", " ",
        "I", " ", "e", "x", "p", "e", "c", "t", "e", "d", " ", "s", "o", " ", "m", "u", "c",
        "h", " ", "b", "e", "t", "t", "e", "r", " ", "t", "h", "a", "n", " ", "t", "h", "i",
        "s", "." >>,
    \* "Thank you for the wonderful gift! You always know how to make me smile."
    <<
        "T", "h", "a", "n", "k", " ", "y", "o", "u", " ", "f", "o", "r", " ", "t", "h", "e",
        " ", "w", "o", "n", "d", "e", "r", "f", "u", "l", " ", "g", "i", "f", "t", "!", " ",
        "Y", "o", "u", " ", "a", "l", "w", "a", "y", "s", " ", "k", "n", "o", "w", " ", "h",
        "o", "w", " ", "t", "o", " ", "m", "a", "k", "e", " ", "m", "e", " ", "s", "m", "i",
        "l", "e", "." >>,
    \* "Rude staff and dirty facilities. Will never return to this place."
    <<
        "R", "u", "d", "e", " ", "s", "t", "a", "f", "f", " ", "a", "n", "d", " ", "d", "i",
        "r", "t", "y", " ", "f", "a", "c", "i", "l", "i", "t", "i", "e", "s", ".", " ", "W",
        "i", "l", "l", " ", "n", "e", "v", "e", "r", " ", "r", "e", "t", "u", "r", "n", " ",
        "t", "o", " ", "t", "h", "i", "s", " ", "p", "l", "a", "c", "e", "." >>,
    \* "Excited about the new opportunities ahead! Can't wait to get started!"
    <<
        "E", "x", "c", "i", "t", "e", "d", " ", "a", "b", "o", "u", "t", " ", "t", "h", "e",
        " ", "n", "e", "w", " ", "o", "p", "p", "o", "r", "t", "u", "n", "i", "t", "i", "e",
        "s", " ", "a", "h", "e", "a", "d", "!", " ", "C", "a", "n", "'", "t", " ", "w", "a",
        "i", "t", " ", "t", "o", " ", "g", "e", "t", " ", "s", "t", "a", "r", "t", "e", "d",
        "!" >>,
    \* "System is down again. How is this acceptable? Completely unreliable service."
    <<
        "S", "y", "s", "t", "e", "m", " ", "i", "s", " ", "d", "o", "w", "n", " ", "a", "g",
        "a", "i", "n", ".", " ", "H", "o", "w", " ", "i", "s", " ", "t", "h", "i", "s", " ",
        "a", "c", "c", "e", "p", "t", "a", "b", "l", "e", "?", " ", "C", "o", "m", "p", "l",
        "e", "t", "e", "l", "y", " ", "u", "n", "r", "e", "l", "i", "a", "b", "l", "e", " ",
        "s", "e", "r", "v", "i", "c", "e", "." >>
>>

\* line 83: st.slider(min_value=5, max_value=20, value=10, step=5)
DemoSliderValues == { 5, 10, 15, 20 }

\* line 162: st.slider(min_value=10, max_value=100, value=50, step=10); the model
\* draws the two ends
FetchSliderValues == { 10, 100 }

\* demo_tweets[:num_tweets]
Prefix(seq, n) == SubSeq(seq, 1, IF n < Len(seq) THEN n ELSE Len(seq))

\* lines 115-118 and 182-186: classify the items in order, appending each label;
\* the first exception ends the loop.  An item is a dict; the demo loop reads the
\* text itself, the fetch loop reads tweet['text'].
\* the loop inserting each label at the front of sentiments
ClassifyStepPrepend(acc, r, e) ==
    [ artifacts |-> e,
      calls |-> Append(acc.calls, r),
      sentiments |-> IF r.raised = NoException THEN << r.value >> \o acc.sentiments
                     ELSE acc.sentiments,
      raised |-> r.raised ]

\* the loop catching the exception of one text and going on with the next
ClassifyStepContinue(acc, r, e) ==
    [ artifacts |-> e,
      calls |-> Append(acc.calls, r),
      sentiments |-> IF r.raised = NoException THEN Append(acc.sentiments, r.value)
                     ELSE acc.sentiments,
      raised |-> NoException ]

ClassifyStep(acc, r, e) ==
    [ artifacts |-> e,
      calls |-> Append(acc.calls, r),
      sentiments |-> IF r.raised = NoException THEN Append(acc.sentiments, r.value)
                     ELSE acc.sentiments,
      raised |-> r.raised ]

ClassifyItem(acc, text, a) ==
    ClassifyStep(acc, predict_sentiment(text, a.model, a.vectorizer, a.stop_words),
                 predict_sentiment_effect(text, a.model, a.vectorizer, a.stop_words))

RECURSIVE ClassifyFrom(_, _, _)
ClassifyFrom(items, i, acc) ==
    IF i > Len(items) \/ acc.raised # NoException THEN acc
    ELSE IF "text" \notin DOMAIN items[i]
         THEN [ acc EXCEPT !.raised = "KeyError" ]
         ELSE ClassifyFrom(items, i + 1, ClassifyItem(acc, items[i].text, acc.artifacts))

ClassifyAll(items, artifacts) ==
    ClassifyFrom(items, 1, [ artifacts |-> artifacts, calls |-> << >>,
                             sentiments |-> << >>, raised |-> NoException ])

\* sentiments.count(label)
RECURSIVE Count(_, _)
Count(sentiments, label) ==
    IF sentiments = << >> THEN 0
    ELSE (IF Head(sentiments) = label THEN 1 ELSE 0) + Count(Tail(sentiments), label)

Unbound == [ unbound |-> TRUE ]

\* (count / total_count) * 100, kept as the exact fraction count * 100 / total_count
Percentage(count, total_count) == [ num |-> count * 100, den |-> total_count ]

\* lines 121-125 and 189-193: the statistics; the first division raises when
\* total_count is 0, and the percentages are then never bound
Aggregate(sentiments) ==
    LET positive_count == Count(sentiments, "Positive")
        negative_count == Count(sentiments, "Negative")
        total_count == Len(sentiments)
    IN  IF total_count = 0
        THEN [ raised |-> "ZeroDivisionError",
               positive_count |-> positive_count, negative_count |-> negative_count,
               total_count |-> total_count,
               positive_percentage |-> Unbound, negative_percentage |-> Unbound,
               divisors |-> << total_count >> ]
        ELSE [ raised |-> NoException,
               positive_count |-> positive_count, negative_count |-> negative_count,
               total_count |-> total_count,
               positive_percentage |-> Percentage(positive_count, total_count),
               negative_percentage |-> Percentage(negative_count, total_count),
               divisors |-> << total_count, total_count >> ]

\* lines 128-140 and 196-208: the summary metrics and the chart
Summary(s) ==
    << [ kind |-> "subheader", body |-> "Sentiment Analysis Summary" ],
       [ kind |-> "metric", label |-> "Total Tweets", count |-> s.total_count ],
       [ kind |-> "metric", label |-> "Positive", count |-> s.positive_count,
         percentage |-> s.positive_percentage ],
       [ kind |-> "metric", label |-> "Negative", count |-> s.negative_count,
         percentage |-> s.negative_percentage ],
       [ kind |-> "subheader", body |-> "Sentiment Distribution" ],
       [ kind |-> "bar_chart", positive |-> s.positive_count, negative |-> s.negative_count ],
       [ kind |-> "subheader", body |-> "Individual Tweet Analysis" ] >>

\* lines 144-156 and 212-226: enumerate(zip(texts, sentiments), 1), one card each
Cards(items, sentiments) ==
    [ i \in 1..(IF Len(items) < Len(sentiments) THEN Len(items) ELSE Len(sentiments)) |->
        [ kind |-> "card", idx |-> i, sentiment |-> sentiments[i],
          color |-> IF sentiments[i] = "Positive" THEN "#28a745" ELSE "#dc3545",
          tweet_text |-> items[i].text ] ]

(***************************************************************************)
(* The inputs of a run                                                     *)
(***************************************************************************)
T_empty == << >>
T_love == << "I", " ", "L", "o", "v", "e", " ", "t", "h", "i", "s", "!" >>
T_worst == << "t", "h", "e", " ", "W", "O", "R", "S", "T", "." >>
T_is == << "I", "s", " ", "1", "?" >>

\* what the text area can hold
InputTexts == { T_empty, T_love, T_worst, T_is }

\* what the username field can hold
Usernames == { << >>, << "@" >>, << "@", "a", "b" >> }

\* the tweets a fetched batch is made of; one has no 'text' key
TweetPool == { [ text |-> T_love ], [ text |-> T_worst ], [ link |-> << "x" >> ] }

PyNone == [ type |-> "NoneType" ]

PyDict(items) == [ type |-> "dict", items |-> items ]

\* what scraper.get_tweets can do: raise, or return None, an empty dict, a dict
\* without 'tweets', or a dict whose 'tweets' is a list of 0..MaxBatch tweets
FetchOutcomes ==
    { [ raised |-> "Exception", value |-> PyNone ],
      [ raised |-> NoException, value |-> PyNone ],
      [ raised |-> NoException, value |-> PyDict(<< >>) ],
      [ raised |-> NoException, value |-> PyDict([ threads |-> << >> ]) ] }
    \cup { [ raised |-> NoException,
             value |-> PyDict([ tweets |-> t, threads |-> << >> ]) ] :
           t \in UNION { [ 1..n -> TweetPool ] : n \in 0..MaxBatch } }

\* bool(tweets_data)
Truthy(v) == v.type # "NoneType" /\ DOMAIN v.items # { }

\* username.lstrip('@')
RECURSIVE LStripAt(_)
LStripAt(username) ==
    IF username # << >> /\ Head(username) = "@" THEN LStripAt(Tail(username)) ELSE username

NoLocals == [ bound |-> FALSE ]

NoProbe == [ taken |-> FALSE ]

\* lines 57-58
Heading ==
    << [ kind |-> "title", body |-> "Social Media Sentiment Analysis" ],
       [ kind |-> "markdown", body |-> "Analyze sentiment from text or Twitter user's tweets" ] >>

\* lines 61-63: the three cached loads that open every run
Loaded ==
    [ stop_words |-> load_stopwords(stopwords_cache, nltk_corpus),
      pair |-> load_model_and_vectorizer(model_cache, disk, disk_reads),
      scraper |-> initialize_scraper(scraper_cache) ]

Artifacts(l) ==
    [ model |-> l.pair.ret.model, vectorizer |-> l.pair.ret.vectorizer,
      stop_words |-> l.stop_words.ret ]

\* the cache entries hold the very objects main() passed around: what a run did to
\* them is what the next run finds
Finish(l, artifacts) ==
    /\ stopwords_cache' = [ filled |-> TRUE, value |-> artifacts.stop_words ]
    /\ model_cache' = [ filled |-> TRUE,
                        value |-> [ model |-> artifacts.model,
                                    vectorizer |-> artifacts.vectorizer ] ]
    /\ scraper_cache' = l.scraper.cache
    /\ disk_reads' = l.pair.reads
    /\ used' = Artifacts(l)
    /\ UNCHANGED << nltk_corpus, disk >>

\* the remembered call: one call of the "Input text" option that returned, taken
\* once; the calls of every later run, of any option, are compared with it
TakeProbe(new_calls) ==
    probe' \in IF probe.taken THEN { probe }
               ELSE { probe } \cup { [ taken |-> TRUE, text |-> new_calls[i].text,
                                       value |-> new_calls[i].value ] :
                                     i \in { j \in DOMAIN new_calls :
                                               new_calls[j].raised = NoException } }

(***************************************************************************)
(* main(), option "Input text" (lines 70-74)                               *)
(***************************************************************************)
MainInputText(text_input, pressed) ==
    \E l \in { Loaded } : \E a \in { Artifacts(l) } :
    \E r \in { predict_sentiment(text_input, a.model, a.vectorizer, a.stop_words) } :
    \E e \in { predict_sentiment_effect(text_input, a.model, a.vectorizer, a.stop_words) } :
        /\ run' = [ option |-> "Input text", text_input |-> text_input, pressed |-> pressed ]
        /\ IF ~pressed
           THEN /\ out' = Heading
                /\ escaped' = NoException
                /\ calls' = << >>
                /\ Finish(l, a)
           ELSE /\ calls' = << r >>
                /\ escaped' = r.raised
                /\ out' = IF r.raised = NoException
                          THEN Heading \o << [ kind |-> "write", sentiment |-> r.value ] >>
                          ELSE Heading
                /\ Finish(l, e)
        /\ TakeProbe(calls')
        /\ scraper_calls' = << >>
        /\ divisions' = << >>
        /\ locals' = NoLocals

(***************************************************************************)
(* main(), option "Get tweets from user", demo mode (lines 80-156)         *)
(***************************************************************************)
DemoInfo == << [ kind |-> "info", body |-> "Demo mode enabled" ] >>

DemoItems(num_tweets) ==
    [ i \in 1..Len(Prefix(demo_tweets, num_tweets)) |-> [ text |-> demo_tweets[i] ] ]

MainDemo(num_tweets, pressed) ==
    \E l \in { Loaded } : \E a \in { Artifacts(l) } :
    \E items \in { DemoItems(num_tweets) } :
    \E spinner \in { << [ kind |-> "spinner", count |-> Len(items) ] >> } :
        /\ run' = [ option |-> "Get tweets from user", use_demo |-> TRUE,
                    num_tweets |-> num_tweets, pressed |-> pressed ]
        /\ scraper_calls' = << >>
        /\ probe' = probe
        /\ IF ~pressed
           THEN /\ out' = Heading \o DemoInfo
                /\ escaped' = NoException
                /\ calls' = << >>
                /\ divisions' = << >>
                /\ locals' = NoLocals
                /\ Finish(l, a)
           ELSE \E c \in { ClassifyAll(items, a) } :
                /\ calls' = c.calls
                /\ Finish(l, c.artifacts)
                /\ IF c.raised # NoException
                   THEN /\ escaped' = c.raised
                        /\ out' = Heading \o DemoInfo \o spinner
                        /\ divisions' = << >>
                        /\ locals' = [ bound |-> TRUE, items |-> items,
                                       sentiments |-> c.sentiments, aggregated |-> FALSE ]
                   ELSE \E s \in { Aggregate(c.sentiments) } :
                        /\ escaped' = s.raised
                        /\ divisions' = s.divisors
                        /\ locals' = [ bound |-> TRUE, items |-> items,
                                       sentiments |-> c.sentiments, aggregated |-> TRUE,
                                       summary |-> s ]
                        /\ out' = IF s.raised # NoException
                                  THEN Heading \o DemoInfo \o spinner
                                  ELSE Heading \o DemoInfo \o spinner \o Summary(s)
                                       \o Cards(items, c.sentiments)

(***************************************************************************)
(* main(), option "Get tweets from user", fetch mode (lines 158-241)       *)
(***************************************************************************)
\* the handler swallowing the exception (except Exception: pass)
HandlerSilent == << >>

\* lines 232-241: the handler of the try block
Handler ==
    << [ kind |-> "error", body |-> "An error occurred while fetching tweets" ],
       [ kind |-> "info", body |-> "Suggestion: Enable Demo Mode" ] >>

\* lines 228-230
NoTweets ==
    << [ kind |-> "warning", body |-> "No tweets found" ],
       [ kind |-> "info", body |-> "Tip: Try enabling Demo Mode" ] >>

\* line 177 without the test of the length
HasTweetsAnyLength(tweets_data) ==
    /\ Truthy(tweets_data)
    /\ "tweets" \in DOMAIN tweets_data.items

\* line 177: tweets_data and 'tweets' in tweets_data and len(tweets_data['tweets']) > 0
HasTweets(tweets_data) ==
    /\ Truthy(tweets_data)
    /\ "tweets" \in DOMAIN tweets_data.items
    /\ Len(tweets_data.items.tweets) > 0

MainFetch(username, num_tweets, pressed, outcome) ==
    \E l \in { Loaded } : \E a \in { Artifacts(l) } :
    \E stripped \in { LStripAt(username) } :
    \E spinner \in { << [ kind |-> "spinner", count |-> num_tweets,
                          username |-> stripped ] >> } :
    \E tweets_data \in { outcome.value } :
        /\ run' = [ option |-> "Get tweets from user", use_demo |-> FALSE,
                    username |-> username, num_tweets |-> num_tweets, pressed |-> pressed,
                    outcome |-> outcome ]
        /\ escaped' = NoException
        /\ probe' = probe
        /\ IF ~pressed
           THEN /\ out' = Heading
                /\ scraper_calls' = << >>
                /\ calls' = << >>
                /\ divisions' = << >>
                /\ locals' = NoLocals
                /\ Finish(l, a)
           ELSE IF username = << >>
           THEN /\ out' = Heading \o << [ kind |-> "error",
                                          body |-> "Please enter a Twitter username" ] >>
                /\ scraper_calls' = << >>
                /\ calls' = << >>
                /\ divisions' = << >>
                /\ locals' = NoLocals
                /\ Finish(l, a)
           ELSE /\ scraper_calls' = << stripped >>
                /\ IF outcome.raised # NoException
                   THEN /\ out' = Heading \o spinner \o Handler
                        /\ calls' = << >>
                        /\ divisions' = << >>
                        /\ locals' = NoLocals
                        /\ Finish(l, a)
                   ELSE IF ~HasTweets(tweets_data)
                   THEN /\ out' = Heading \o spinner \o NoTweets
                        /\ calls' = << >>
                        /\ divisions' = << >>
                        /\ locals' = NoLocals
                        /\ Finish(l, a)
                   ELSE \E tweets \in { tweets_data.items.tweets } :
                        \E success \in { << [ kind |-> "success", count |-> Len(tweets),
                                              username |-> stripped ] >> } :
                        \E c \in { ClassifyAll(tweets, a) } :
                        /\ calls' = c.calls
                        /\ Finish(l, c.artifacts)
                        /\ IF c.raised # NoException
                           THEN /\ out' = Heading \o spinner \o success \o Handler
                                /\ divisions' = << >>
                                /\ locals' = [ bound |-> TRUE, items |-> tweets,
                                               sentiments |-> c.sentiments,
                                               aggregated |-> FALSE ]
                           ELSE \E s \in { Aggregate(c.sentiments) } :
                                /\ divisions' = s.divisors
                                /\ locals' = [ bound |-> TRUE, items |-> tweets,
                                               sentiments |-> c.sentiments,
                                               aggregated |-> TRUE, summary |-> s ]
                                /\ out' = IF s.raised # NoException
                                          THEN Heading \o spinner \o success \o Handler
                                          ELSE Heading \o spinner \o success \o Summary(s)
                                               \o Cards(tweets, c.sentiments)

(***************************************************************************)
(* The page: the process starts with empty caches; every user action       *)
(* reruns main() with the widget state of that moment.                     *)
(***************************************************************************)
NoFn == [ name |-> "none" ]

NoRet == [ done |-> FALSE ]

Started(corpus, on_disk) ==
    /\ nltk_corpus = corpus
    /\ disk = on_disk
    /\ stopwords_cache = EmptyCache
    /\ model_cache = EmptyCache
    /\ scraper_cache = EmptyCache
    /\ disk_reads = 0
    /\ run = [ option |-> "none" ]
    /\ used = [ loaded |-> FALSE ]
    /\ out = << >>
    /\ escaped = NoException
    /\ calls = << >>
    /\ scraper_calls = << >>
    /\ divisions = << >>
    /\ locals = NoLocals
    /\ probe = NoProbe

Init ==
    /\ \E corpus \in StopwordChoices, on_disk \in ArtifactChoices : Started(corpus, on_disk)
    /\ fn = NoFn
    /\ ret = NoRet

InputText == \E text_input \in InputTexts, pressed \in BOOLEAN :
                 MainInputText(text_input, pressed)

Demo == \E num_tweets \in DemoSliderValues, pressed \in BOOLEAN :
            MainDemo(num_tweets, pressed)

\* an outcome of scraper.get_tweets is drawn only in the runs that call it
Fetch == \E username \in Usernames, num_tweets \in FetchSliderValues, pressed \in BOOLEAN :
             \E outcome \in IF pressed /\ username # << >> THEN FetchOutcomes
                            ELSE { [ raised |-> NoException, value |-> PyNone ] } :
                 MainFetch(username, num_tweets, pressed, outcome)

Next ==
    \/ InputText /\ UNCHANGED << fn, ret >>
    \/ Demo /\ UNCHANGED << fn, ret >>
    \/ Fetch /\ UNCHANGED << fn, ret >>

Spec == Init /\ [][Next]_vars

(***************************************************************************)
(* predict_sentiment applied on its own: every string of up to MaxLen      *)
(* characters of a small alphabet, every stopword list over a few          *)
(* lowercase words, two artifact pairs whose vocabulary is made of them.   *)
(***************************************************************************)
PredictAlphabet == { "a", "b", "A", " ", "!", "É" }

PredictTexts == UNION { [ 1..n -> PredictAlphabet ] : n \in 0..MaxLen }

PredictStopwordChoices == SUBSET { << "a" >>, << "b" >>, << "a", "b" >> }

PredictArtifactChoices ==
    { [ model |-> [ coef |-> << 1, -1 >>, intercept |-> 0 ],
        vectorizer |-> [ vocabulary |-> << << "a" >>, << "b" >> >>, raises_on |-> { } ] ],
      [ model |-> [ coef |-> << -1, 2 >>, intercept |-> 1 ],
        vectorizer |-> [ vocabulary |-> << << "a", "b" >>, << "b" >> >>,
                         raises_on |-> { } ] ] }

InitPredict ==
    /\ Started({ }, CHOOSE a \in ArtifactChoices : a.vectorizer.raises_on = { })
    /\ \E text \in PredictTexts, stop_words \in PredictStopwordChoices,
          a \in PredictArtifactChoices :
           fn = [ name |-> "predict_sentiment", text |-> text, model |-> a.model,
                  vectorizer |-> a.vectorizer, stop_words |-> stop_words ]
    /\ ret = NoRet

ApplyPredict ==
    /\ fn.name = "predict_sentiment"
    /\ ~ret.done
    /\ ret' = [ done |-> TRUE,
                value |-> predict_sentiment(fn.text, fn.model, fn.vectorizer, fn.stop_words) ]
    /\ UNCHANGED << fn, mainVars >>

SpecPredict == InitPredict /\ [][ApplyPredict]_vars

(***************************************************************************)
(* Properties of predict_sentiment applied on its own (SpecPredict)        *)
(***************************************************************************)
\* text[i..j] is a maximal run of characters of the set chars
IsRun(text, i, j, chars) ==
    /\ i <= j
    /\ \A k \in i..j : text[k] \in chars
    /\ i = 1 \/ text[i - 1] \notin chars
    /\ j = Len(text) \/ text[j + 1] \notin chars

Normalised == ret.value.batch[1]

\* C1: the normalised text that predict_sentiment builds holds only the characters
\* a-z and single spaces (no leading, trailing or doubled space) and no token that
\* is in the stopword list; it is empty for the empty string and for a string made
\* only of non-letters and stopwords.
C1_NormalisedText ==
    ret.done =>
        /\ \A i \in DOMAIN Normalised : Normalised[i] \in Range(LowerLetters) \cup { " " }
        /\ Normalised # << >> =>
               Normalised[1] # " " /\ Normalised[Len(Normalised)] # " "
        /\ \A i \in 1..(Len(Normalised) - 1) :
               ~(Normalised[i] = " " /\ Normalised[i + 1] = " ")
        /\ \A i, j \in DOMAIN Normalised :
               IsRun(Normalised, i, j, Range(LowerLetters)) =>
                   SubSeq(Normalised, i, j) \notin fn.stop_words
        /\ fn.text = << >> => Normalised = << >>
        /\ (\A i, j \in DOMAIN fn.text :
                IsRun(fn.text, i, j, AsciiLetters) =>
                    Lower(SubSeq(fn.text, i, j)) \in fn.stop_words)
           => Normalised = << >>

\* an upper-case stopword and a non-letter are dropped, the other word is kept
C1_Witness ==
    /\ ret.done
    /\ fn.text = << "A", "!", "b" >>
    /\ fn.stop_words = { << "a" >> }
    /\ Normalised = << "b" >>

\* C6: predict_sentiment hands the normalised text to the vectorizer as a batch of
\* one element and returns "Negative" exactly when the classifier's output is 0 and
\* "Positive" exactly when it is 1, for every input string, the empty one included.
C6_LabelMapping ==
    ret.done =>
        /\ ret.value.raised = NoException
        /\ Len(ret.value.batch) = 1
        /\ Len(ret.value.sentiment) = 1
        /\ ret.value.sentiment[1] \in { 0, 1 }
        /\ ret.value.value \in { "Negative", "Positive" }
        /\ ret.value.value = "Negative" <=> ret.value.sentiment[1] = 0
        /\ ret.value.value = "Positive" <=> ret.value.sentiment[1] = 1

\* the empty string is classified, and both labels are returned for some input
C6_Witness ==
    /\ ret.done
    /\ fn.text = << >>
    /\ ret.value.batch = << << >> >>
    /\ ret.value.value = "Positive"

(***************************************************************************)
(* Properties of the page (Spec)                                           *)
(***************************************************************************)
IsDemo == run.option = "Get tweets from user" /\ run.use_demo

IsFetch == run.option = "Get tweets from user" /\ ~run.use_demo

\* the run called scraper.get_tweets
FetchCalled == IsFetch /\ run.pressed /\ run.username # << >>

Kinds == { out[i].kind : i \in DOMAIN out }

StatisticKinds == { "subheader", "metric", "bar_chart", "card" }

IsCard(e) == e.kind = "card"

Aggregated == locals.bound /\ locals.aggregated

\* C2: for a batch of n texts the sentiments list has n labels, the i-th label is
\* the prediction for the i-th text (card #i pairs text i with label i),
\* total_count = n and positive_count + negative_count = n.
C2_BatchInOrder ==
    (Aggregated /\ escaped = NoException) =>
        /\ Len(locals.sentiments) = Len(locals.items)
        /\ Len(calls) = Len(locals.items)
        /\ \A i \in DOMAIN locals.items :
               /\ calls[i].text = locals.items[i].text
               /\ locals.sentiments[i] = calls[i].value
               /\ locals.sentiments[i] =
                      predict_sentiment(locals.items[i].text, used.model, used.vectorizer,
                                        used.stop_words).value
        /\ locals.summary.total_count = Len(locals.items)
        /\ locals.summary.positive_count + locals.summary.negative_count
               = Len(locals.items)
        /\ Len(SelectSeq(out, IsCard)) = Len(locals.items)
        /\ \A i \in DOMAIN locals.items :
               /\ SelectSeq(out, IsCard)[i].idx = i
               /\ SelectSeq(out, IsCard)[i].tweet_text = locals.items[i].text
               /\ SelectSeq(out, IsCard)[i].sentiment = locals.sentiments[i]

\* the twenty demo tweets were analysed and both labels occur
C2_Witness ==
    /\ IsDemo
    /\ Aggregated
    /\ Len(locals.items) = 20
    /\ locals.summary.positive_count >= 1
    /\ locals.summary.negative_count >= 1
    /\ locals.sentiments[1] # locals.sentiments[20]

\* the fetched list of tweets is empty
EmptyBatchFetched ==
    /\ FetchCalled
    /\ run.outcome.raised = NoException
    /\ run.outcome.value.type = "dict"
    /\ "tweets" \in DOMAIN run.outcome.value.items
    /\ run.outcome.value.items.tweets = << >>

ZeroMetric(e, label) ==
    /\ e.kind = "metric"
    /\ e.label = label
    /\ e.count = 0
    /\ label # "Total Tweets" => e.percentage = Percentage(0, 1)

\* C3: aggregation over an empty sequence of texts reports totalCount = 0,
\* positiveCount = 0, negativeCount = 0 and both percentages 0, and raises no
\* division by zero.
C3_EmptyBatchReportsZeros ==
    EmptyBatchFetched =>
        /\ escaped = NoException
        /\ \A i \in DOMAIN divisions : divisions[i] # 0
        /\ \A label \in { "Total Tweets", "Positive", "Negative" } :
               \E i \in DOMAIN out : ZeroMetric(out[i], label)

\* C4: 'Fetch Tweets' with an empty username is rejected with an error and without
\* a call of scraper.get_tweets, and the username passed to scraper.get_tweets is
\* never the empty string.
C4_UsernameNeverEmpty ==
    /\ (IsFetch /\ run.pressed /\ run.username = << >>) =>
           scraper_calls = << >> /\ "error" \in Kinds
    /\ \A i \in DOMAIN scraper_calls : scraper_calls[i] # << >>

\* the fetch collaborator raised, or returned None, an empty dict, a dict without
\* 'tweets' or an empty list of tweets
FetchFailed ==
    /\ FetchCalled
    /\ \/ run.outcome.raised # NoException
       \/ run.outcome.value.type = "NoneType"
       \/ DOMAIN run.outcome.value.items = { }
       \/ "tweets" \notin DOMAIN run.outcome.value.items
       \/ run.outcome.value.items.tweets = << >>

\* C5: when the fetch collaborator raises or returns nothing to analyse, the run
\* ends with an error or a warning and guidance, no exception escapes main, nothing
\* is classified and no statistics or cards are produced.
C5_FetchFailureIsRecovered ==
    FetchFailed =>
        /\ escaped = NoException
        /\ "error" \in Kinds \/ "warning" \in Kinds
        /\ "info" \in Kinds
        /\ calls = << >>
        /\ divisions = << >>
        /\ Kinds \cap StatisticKinds = { }
        /\ ~locals.bound

\* the collaborator raised for a name that had its '@' stripped
C5_Witness ==
    /\ FetchFailed
    /\ run.outcome.raised # NoException
    /\ run.username = << "@", "a", "b" >>
    /\ scraper_calls = << << "a", "b" >> >>
    /\ "error" \in Kinds

C8_LoadedOnce ==
    [][ /\ disk_reads' <= 1
        /\ model_cache.filled =>
               /\ disk_reads' = disk_reads
               /\ model_cache' = model_cache
               /\ used'.model = model_cache.value.model
               /\ used'.vectorizer = model_cache.value.vectorizer ]_vars

\* a failed fetch that followed an "Input text" analysis, with one read in all
C8_Witness ==
    /\ probe.taken
    /\ FetchFailed
    /\ disk_reads = 1
    /\ model_cache.filled
    /\ used.model = disk.model

\* the classification of a text of the batch raised
BatchRaised ==
    /\ run.option = "Get tweets from user"
    /\ run.pressed
    /\ \E i \in DOMAIN calls : calls[i].raised # NoException

\* C9: if classifying a text of a batch raises, the batch aborts: no statistics,
\* chart or cards are produced, not even for the texts classified before, and no
\* text is tried again.
C9_BatchAllOrNothing ==
    BatchRaised =>
        /\ Kinds \cap StatisticKinds = { }
        /\ divisions = << >>
        /\ locals.bound /\ ~locals.aggregated
        /\ Len(calls) <= Len(locals.items)
        /\ \A i \in DOMAIN calls :
               /\ calls[i].text = locals.items[i].text
               /\ calls[i].raised # NoException => i = Len(calls)
        /\ IsDemo => escaped # NoException
        /\ IsFetch => escaped = NoException /\ "error" \in Kinds

\* the second demo tweet raised after the first was classified
C9_Witness ==
    /\ BatchRaised
    /\ IsDemo
    /\ Len(locals.sentiments) = 1
    /\ Len(calls) = 2

\* C10: the percentage divisions are executed only with total_count >= 1: the demo
\* batch is the first num_tweets of the demo tweets with num_tweets in
\* {5, 10, 15, 20}, the fetched batch is aggregated only when it is not empty, and
\* demo mode never calls the fetch collaborator.
C10_DivisorPositive ==
    /\ \A i \in DOMAIN divisions : divisions[i] >= 1
    /\ IsDemo => scraper_calls = << >>
    /\ (IsDemo /\ divisions # << >>) =>
           /\ run.num_tweets \in { 5, 10, 15, 20 }
           /\ Len(locals.items) = run.num_tweets
           /\ \A i \in DOMAIN locals.items : locals.items[i].text = demo_tweets[i]
           /\ \A i \in DOMAIN divisions : divisions[i] = run.num_tweets
    /\ (IsFetch /\ divisions # << >>) =>
           /\ Len(run.outcome.value.items.tweets) > 0
           /\ \A i \in DOMAIN divisions :
                  divisions[i] = Len(run.outcome.value.items.tweets)

\* a fetched batch of MaxBatch tweets was aggregated
C10_Witness ==
    /\ IsFetch
    /\ divisions = << MaxBatch, MaxBatch >>

====
